---- MODULE Spec2Model ----
(***************************************************************************)
(* Model of package model (schema extraction: New, parseColumns,           *)
(* parseColumn, parseMeta, the clause handlers, hasConstraint, Clear) and  *)
(* of the mysql dialect, from src/dialect/mysql.go.                        *)
(*                                                                         *)
(* Go strings are sequences of one-character strings, so that              *)
(* strings.ToLower, unicode.IsLower and strconv.ParseBool are computed on  *)
(* the characters.  A *Column is the path of its field in the record type  *)
(* (<<2>> is the 2nd field, <<2, 1>> the 1st field of the struct embedded  *)
(* as 2nd field); the Column objects live in the field "columns" of their  *)
(* Model.  A *Model is a key of heap.                                      *)
(***************************************************************************)
EXTENDS Integers, Sequences, FiniteSets, TLC

VARIABLES
    objs,     \* the values the application passes to New
    items,    \* models.items: reflect.Type -> *Model
    mutex,    \* models.Mutex: the goroutine holding it, 0 when free
    heap,     \* the Model objects: *Model -> Model
    nextId,   \* the next *Model the allocator hands out
    pc,       \* per goroutine: where it is in New
    obj,      \* per goroutine: the argument of New
    rtype,    \* per goroutine: the local rtype of New
    m,        \* per goroutine: the local m of New
    stack,    \* per goroutine: the parseColumns calls in progress
    col,      \* per goroutine: the local col of parseColumn
    pending,  \* per goroutine: the keys of tags the range loop has not visited
    dropped,  \* per goroutine: the errors line 332 has discarded in this New
    visited,  \* per goroutine: the keys the range loops of this New have visited
    ret,      \* per goroutine: what its last New returned
    trace,    \* the calls that have returned, in the order they returned
    calls,    \* the number of calls the application may still make
    mysqlInst, \* the package variable mysqlInst of the dialect
    dpc,      \* per goroutine: where it is in Mysql()
    out,      \* the calls of the dialect that have returned, in that order
    dcalls    \* the number of calls of the dialect the application may still make

\* the state of package model, and the state of package dialect
mvars == <<objs, items, mutex, heap, nextId, pc, obj, rtype, m, stack, col,
           pending, dropped, visited, ret, trace, calls>>
dvars == <<mysqlInst, dpc, out, dcalls>>

vars == <<objs, items, mutex, heap, nextId, pc, obj, rtype, m, stack, col,
          pending, dropped, visited, ret, trace, calls, mysqlInst, dpc, out, dcalls>>

(* ------------------------------ bounds -------------------------------- *)

NumThreads == 2
MaxCalls == 3
MaxParseCalls == 2
MaxSQLCalls == 2
MaxTypeCalls == 1
MaxMysqlCalls == 3

Threads == 1..NumThreads

(* ----------------------------- Go values ------------------------------ *)

Nil == <<>>
NoErr == "nil"
EmptyMap == [k \in {} |-> 0]

Has(f, k) == k \in DOMAIN f
Put(f, k, v) == [x \in DOMAIN f \cup {k} |-> IF x = k THEN v ELSE f[x]]
Get(f, k, zero) == IF k \in DOMAIN f THEN f[k] ELSE zero

\* unicode.ToLower / unicode.IsLower on the letters the inputs use
LowerRune(c) ==
    CASE c = "X" -> "x"
      [] c = "Y" -> "y"
      [] c = "A" -> "a"
      [] c = "B" -> "b"
      [] c = "C" -> "c"
      [] c = "T" -> "t"
      [] OTHER -> c

IsLower(c) == c \in {"a", "b", "c", "t", "x", "y"}

ToLower(s) == [i \in DOMAIN s |-> LowerRune(s[i])]

\* strconv.ParseBool: [val, err]
ParseBool(s) ==
    IF s \in {<<"1">>, <<"t">>, <<"T">>, <<"t", "r", "u", "e">>,
              <<"T", "R", "U", "E">>, <<"T", "r", "u", "e">>}
    THEN [val |-> TRUE, err |-> NoErr]
    ELSE IF s \in {<<"0">>, <<"f">>, <<"F">>, <<"f", "a", "l", "s", "e">>,
                   <<"F", "A", "L", "S", "E">>, <<"F", "a", "l", "s", "e">>}
    THEN [val |-> FALSE, err |-> NoErr]
    ELSE [val |-> FALSE, err |-> "strconv.ParseBool"]

IsDigit(c) == c \in {"0", "1", "2", "3", "4", "5", "6", "7", "8", "9"}

DigitVal(c) ==
    CASE c = "0" -> 0 [] c = "1" -> 1 [] c = "2" -> 2 [] c = "3" -> 3
      [] c = "4" -> 4 [] c = "5" -> 5 [] c = "6" -> 6 [] c = "7" -> 7
      [] c = "8" -> 8 [] c = "9" -> 9 [] OTHER -> 0

RECURSIVE Digits(_)
Digits(s) == IF s = <<>> THEN 0 ELSE 10 * Digits(SubSeq(s, 1, Len(s) - 1)) + DigitVal(s[Len(s)])

\* strconv.Atoi: [val, err]
Atoi(s) ==
    LET neg == s # <<>> /\ s[1] = "-"
        body == IF s # <<>> /\ s[1] \in {"-", "+"} THEN Tail(s) ELSE s
    IN IF body = <<>> \/ \E i \in DOMAIN body : ~IsDigit(body[i])
       THEN [val |-> 0, err |-> "strconv.Atoi"]
       ELSE [val |-> IF neg THEN 0 - Digits(body) ELSE Digits(body), err |-> NoErr]

IntKinds == {"Int", "Int8", "Int16", "Int32", "Int64",
             "Uint", "Uint8", "Uint16", "Uint32", "Uint64"}

(* ------------------------ Column and Model ---------------------------- *)

newColumn(field) ==
    [Name |-> field.Name, GoType |-> field.Type, Len1 |-> 0, Len2 |-> 0,
     Nullable |-> FALSE, HasDefault |-> FALSE, Default |-> <<>>]

NewModel(name) ==
    [Name |-> name, Cols |-> EmptyMap, KeyIndexes |-> EmptyMap,
     UniqueIndexes |-> EmptyMap, FK |-> EmptyMap, PK |-> <<>>, AI |-> Nil,
     OCC |-> Nil, Check |-> EmptyMap, Meta |-> EmptyMap,
     constraints |-> EmptyMap, columns |-> EmptyMap]

\* a handler's outcome: the Model as it left it, and the error it returned
Ok(mod) == [m |-> mod, err |-> NoErr]
Err(mod, e) == [m |-> mod, err |-> e]

SetCol(mod, c, field, v) ==
    [mod EXCEPT !.columns = [@ EXCEPT ![c] = [@ EXCEPT ![field] = v]]]

IsAI(mod, c) == mod.AI = c

InSeq(s, x) == \E i \in DOMAIN s : s[i] = x

hasConstraint(mod, name, except) ==
    LET key == ToLower(name)
    IN IF Has(mod.constraints, key) /\ mod.constraints[key] # except
       THEN mod.constraints[key]
       ELSE "none"

(* -------------------------- clause handlers --------------------------- *)

\* occ(true) or occ
setOCC(mod, c, vals) ==
    IF IsAI(mod, c) \/ mod.columns[c].Nullable
    THEN Err(mod, "setOCC: ai or nullable")
    ELSE IF mod.OCC # Nil
    THEN Err(mod, "setOCC: duplicate occ")
    ELSE IF mod.columns[c].GoType.Kind \notin IntKinds
    THEN Err(mod, "setOCC: not an integer")
    ELSE IF Len(vals) = 0
    THEN Ok([mod EXCEPT !.OCC = c])
    ELSE IF Len(vals) = 1
    THEN LET b == ParseBool(vals[1])
         IN IF b.err # NoErr THEN Err(mod, b.err)
            ELSE IF b.val THEN Ok([mod EXCEPT !.OCC = c])
            ELSE Ok(mod)
    ELSE Err(mod, "setOCC: too many values")

\* setDefault as it would be without the check of lines 486-490
setDefaultIgnoringPK(mod, c, vals) ==
    IF mod.AI = c
    THEN Err(mod, "setDefault: ai")
    ELSE IF Len(vals) # 1
    THEN Err(mod, "setDefault: arity")
    ELSE Ok(SetCol(SetCol(mod, c, "HasDefault", TRUE), c, "Default", vals[1]))

\* default(5)
setDefault(mod, c, vals) ==
    IF mod.AI = c
    THEN Err(mod, "setDefault: ai")
    ELSE IF InSeq(mod.PK, c)
    THEN Err(mod, "setDefault: pk")
    ELSE IF Len(vals) # 1
    THEN Err(mod, "setDefault: arity")
    ELSE Ok(SetCol(SetCol(mod, c, "HasDefault", TRUE), c, "Default", vals[1]))

\* index(idx_name)
setIndex(mod, c, vals) ==
    IF Len(vals) # 1
    THEN Err(mod, "setIndex: arity")
    ELSE IF hasConstraint(mod, vals[1], "index") # "none"
    THEN Err(mod, "setIndex: constraint name collision")
    ELSE Ok([mod EXCEPT
               !.constraints = Put(@, vals[1], "index"),
               !.KeyIndexes = Put(@, vals[1], Append(Get(@, vals[1], <<>>), c))])

\* setPK as it would be without the check of lines 527-529
setPKIgnoringAI(mod, c, vals) ==
    IF mod.columns[c].HasDefault
    THEN Err(mod, "setPK: default")
    ELSE IF Len(vals) # 0
    THEN Err(mod, "setPK: arity")
    ELSE Ok([mod EXCEPT !.PK = Append(@, c)])

\* pk
setPK(mod, c, vals) ==
    IF mod.columns[c].HasDefault
    THEN Err(mod, "setPK: default")
    ELSE IF Len(vals) # 0
    THEN Err(mod, "setPK: arity")
    ELSE IF mod.AI # Nil
    THEN Err(mod, "setPK: ai exists")
    ELSE Ok([mod EXCEPT !.PK = Append(@, c)])

\* unique(unique_name)
setUnique(mod, c, vals) ==
    IF Len(vals) # 1
    THEN Err(mod, "setUnique: arity")
    ELSE IF hasConstraint(mod, vals[1], "unique") # "none"
    THEN Err(mod, "setUnique: constraint name collision")
    ELSE Ok([mod EXCEPT
               !.constraints = Put(@, vals[1], "unique"),
               !.UniqueIndexes = Put(@, vals[1], Append(Get(@, vals[1], <<>>), c))])

\* fk(fk_name,refTable,refColName,updateRule,deleteRule)
setFK(mod, c, vals) ==
    IF Len(vals) < 3
    THEN Err(mod, "setFK: arity")
    ELSE IF hasConstraint(mod, vals[1], "fk") # "none"
    THEN Err(mod, "setFK: constraint name collision")
    ELSE IF Has(mod.FK, vals[1])
    THEN Err(mod, "setFK: duplicate fk")
    ELSE LET fkInst == [Col |-> c, RefTableName |-> vals[2], RefColName |-> vals[3],
                        UpdateRule |-> IF Len(vals) > 3 THEN vals[4] ELSE <<>>,
                        DeleteRule |-> IF Len(vals) > 4 THEN vals[5] ELSE <<>>]
         IN Ok([mod EXCEPT !.constraints = Put(@, vals[1], "fk"),
                           !.FK = Put(@, vals[1], fkInst)])

\* setAI as it would be if line 607 appended to PK instead of replacing it
setAIAppendingPK(mod, c, vals) ==
    IF mod.columns[c].HasDefault
    THEN Err(mod, "setAI: default")
    ELSE IF Len(vals) # 0
    THEN Err(mod, "setAI: arity")
    ELSE IF mod.columns[c].Nullable
    THEN Err(mod, "setAI: nullable")
    ELSE IF mod.columns[c].GoType.Kind \notin IntKinds
    THEN Err(mod, "setAI: not an integer")
    ELSE Ok([mod EXCEPT !.AI = c, !.PK = Append(@, c)])

\* ai
setAI(mod, c, vals) ==
    IF mod.columns[c].HasDefault
    THEN Err(mod, "setAI: default")
    ELSE IF Len(vals) # 0
    THEN Err(mod, "setAI: arity")
    ELSE IF mod.columns[c].Nullable
    THEN Err(mod, "setAI: nullable")
    ELSE IF mod.columns[c].GoType.Kind \notin IntKinds
    THEN Err(mod, "setAI: not an integer")
    ELSE Ok([mod EXCEPT !.AI = c, !.PK = <<c>>])

\* nullable or nullable(true)
setNullable(mod, c, vals) ==
    IF Len(vals) = 0
    THEN Ok(SetCol(mod, c, "Nullable", TRUE))
    ELSE IF Len(vals) = 1
    THEN LET b == ParseBool(vals[1])
         IN IF b.err # NoErr THEN Err(mod, b.err)
            ELSE Ok(SetCol(mod, c, "Nullable", b.val))
    ELSE Err(mod, "setNullable: arity")

\* len(l1) or len(l1,l2)
setLen(mod, c, vals) ==
    IF Len(vals) \notin {1, 2}
    THEN Err(mod, "setLen: arity")
    ELSE LET l1 == Atoi(vals[1])
             l2 == IF Len(vals) = 2 THEN Atoi(vals[2]) ELSE [val |-> 0, err |-> NoErr]
         IN IF l1.err # NoErr THEN Err(mod, l1.err)
            ELSE IF l2.err # NoErr THEN Err(mod, l2.err)
            ELSE Ok(SetCol(SetCol(mod, c, "Len1", l1.val), c, "Len2",
                           IF Len(vals) = 2 THEN l2.val ELSE mod.columns[c].Len2))

\* the body of the range loop of parseColumn for the key k with values v
applyTag(mod, c, k, v) ==
    CASE k = "name" ->
           IF Len(v) # 1 THEN Err(mod, "parseColumn: name arity")
           ELSE Ok(SetCol(mod, c, "Name", v[1]))
      [] k = "index" -> setIndex(mod, c, v)
      [] k = "pk" -> setPK(mod, c, v)
      [] k = "unique" -> setUnique(mod, c, v)
      [] k = "nullable" -> setNullable(mod, c, v)
      [] k = "ai" -> setAI(mod, c, v)
      [] k = "len" -> setLen(mod, c, v)
      [] k = "fk" -> setFK(mod, c, v)
      [] k = "default" -> setDefault(mod, c, v)
      [] k = "occ" -> setOCC(mod, c, v)
      [] OTHER -> Err(mod, "parseColumn: unknown key")

\* the body of the range loop of parseMeta for the key k with values v
applyMeta(mod, k, v) ==
    CASE k = "name" ->
           IF Len(v) # 1 THEN Err(mod, "parseMeta: name arity")
           ELSE Ok([mod EXCEPT !.Name = v[1]])
      [] k = "check" ->
           IF Len(v) # 2 THEN Err(mod, "parseMeta: check arity")
           ELSE IF Has(mod.Check, v[1]) THEN Err(mod, "parseMeta: duplicate check")
           ELSE IF hasConstraint(mod, v[1], "check") # "none"
           THEN Err(mod, "parseMeta: constraint name collision")
           ELSE Ok([mod EXCEPT !.constraints = Put(@, v[1], "check"),
                               !.Check = Put(@, v[1], v[2])])
      [] OTHER -> Ok([mod EXCEPT !.Meta = Put(@, k, v)])

(* ------------------------------- New ---------------------------------- *)

Remove(f, k) == [x \in DOMAIN f \ {k} |-> f[x]]

Top(stk) == stk[Len(stk)]
\* i++ in the innermost parseColumns call
Advance(stk) == [stk EXCEPT ![Len(stk)].i = @ + 1]
\* the innermost parseColumns call returns to line 332, whose loop continues
Pop(stk) == Advance(SubSeq(stk, 1, Len(stk) - 1))

NewEvent(t, ty, mid, e, hit, tmp, ord) ==
    [op |-> "New", g |-> t, rtype |-> ty, m |-> mid, err |-> e, hit |-> hit,
     tmp |-> tmp, dropped |-> dropped[t], order |-> ord,
     waiters |-> {u \in Threads : u # t /\ pc[u] = "Lock" /\ rtype[u] = ty}]

ClearEvent(t) ==
    [op |-> "Clear", g |-> t, rtype |-> Nil, m |-> 0, err |-> NoErr, hit |-> FALSE,
     tmp |-> 0, dropped |-> <<>>, order |-> <<>>, waiters |-> {}]

\* New returns (mid, e): its locals die, the caller has the result
Return(t, ty, mid, e, hit, tmp, ord) ==
    /\ ret' = [ret EXCEPT ![t] = [m |-> mid, err |-> e]]
    /\ trace' = Append(trace, NewEvent(t, ty, mid, e, hit, tmp, ord))
    /\ pc' = [pc EXCEPT ![t] = "idle"]
    /\ obj' = [obj EXCEPT ![t] = Nil]
    /\ rtype' = [rtype EXCEPT ![t] = Nil]
    /\ m' = [m EXCEPT ![t] = 0]
    /\ stack' = [stack EXCEPT ![t] = <<>>]
    /\ col' = [col EXCEPT ![t] = Nil]
    /\ pending' = [pending EXCEPT ![t] = {}]
    /\ dropped' = [dropped EXCEPT ![t] = <<>>]
    /\ visited' = [visited EXCEPT ![t] = <<>>]

\* lines 283-292: the application calls New(o); a value that is no struct
\* after dereferencing is refused before the lock is taken
New(t) ==
    /\ UNCHANGED dvars
    /\ pc[t] = "idle"
    /\ calls > 0
    /\ calls' = calls - 1
    /\ \E o \in objs :
         IF o.Type.Kind # "Struct"
         THEN /\ Return(t, o.Type, 0, "ErrInvalidKind", FALSE, 0, <<>>)
              /\ UNCHANGED <<objs, items, mutex, heap, nextId>>
         ELSE /\ pc' = [pc EXCEPT ![t] = "Lock"]
              /\ obj' = [obj EXCEPT ![t] = o]
              /\ rtype' = [rtype EXCEPT ![t] = o.Type]
              /\ UNCHANGED <<objs, items, mutex, heap, nextId, m, stack, col,
                             pending, dropped, visited, ret, trace>>

\* Lock as it would be if New did not take models.Mutex
LockWithoutMutex(t) ==
    /\ UNCHANGED dvars
    /\ pc[t] = "Lock"
    /\ IF Has(items, rtype[t])
       THEN /\ Return(t, rtype[t], items[rtype[t]], NoErr, TRUE, 0, <<>>)
            /\ UNCHANGED <<objs, items, mutex, heap, nextId, calls>>
       ELSE /\ mutex' = t
            /\ m' = [m EXCEPT ![t] = nextId]
            /\ nextId' = nextId + 1
            /\ heap' = Put(heap, nextId, NewModel(rtype[t].Name))
            /\ stack' = [stack EXCEPT ![t] =
                            <<[fields |-> rtype[t].Fields, i |-> 1, path |-> <<>>]>>]
            /\ pc' = [pc EXCEPT ![t] = "parseColumns"]
            /\ UNCHANGED <<objs, items, obj, rtype, col, pending, dropped, visited, ret,
                           trace, calls>>

\* Lock as it would be if New put the Model in the cache before parsing it
LockStoresFirst(t) ==
    /\ UNCHANGED dvars
    /\ pc[t] = "Lock"
    /\ mutex = 0
    /\ IF Has(items, rtype[t])
       THEN /\ Return(t, rtype[t], items[rtype[t]], NoErr, TRUE, 0, <<>>)
            /\ UNCHANGED <<objs, items, mutex, heap, nextId, calls>>
       ELSE /\ mutex' = t
            /\ m' = [m EXCEPT ![t] = nextId]
            /\ nextId' = nextId + 1
            /\ heap' = Put(heap, nextId, NewModel(rtype[t].Name))
            /\ items' = Put(items, rtype[t], nextId)
            /\ stack' = [stack EXCEPT ![t] =
                            <<[fields |-> rtype[t].Fields, i |-> 1, path |-> <<>>]>>]
            /\ pc' = [pc EXCEPT ![t] = "parseColumns"]
            /\ UNCHANGED <<objs, obj, rtype, col, pending, dropped, visited, ret,
                           trace, calls>>

\* lines 294-310: models.Lock(), the lookup, and for a miss the new Model
Lock(t) ==
    /\ UNCHANGED dvars
    /\ pc[t] = "Lock"
    /\ mutex = 0
    /\ IF Has(items, rtype[t])
       THEN /\ Return(t, rtype[t], items[rtype[t]], NoErr, TRUE, 0, <<>>)
            /\ UNCHANGED <<objs, items, mutex, heap, nextId, calls>>
       ELSE /\ mutex' = t
            /\ m' = [m EXCEPT ![t] = nextId]
            /\ nextId' = nextId + 1
            /\ heap' = Put(heap, nextId, NewModel(rtype[t].Name))
            /\ stack' = [stack EXCEPT ![t] =
                            <<[fields |-> rtype[t].Fields, i |-> 1, path |-> <<>>]>>]
            /\ pc' = [pc EXCEPT ![t] = "parseColumns"]
            /\ UNCHANGED <<objs, items, obj, rtype, col, pending, dropped, visited, ret,
                           trace, calls>>

\* New returns (nil, e) with the lock held: the deferred Unlock runs, the
\* Model it was building is garbage
Fail(t, e, ord) ==
    /\ Return(t, rtype[t], 0, e, FALSE, m[t], ord)
    /\ mutex' = 0
    /\ heap' = Remove(heap, m[t])
    /\ UNCHANGED <<objs, items, nextId, calls>>

\* lines 325-360: one iteration of the loop of the innermost parseColumns
\* call, up to the range loop of parseColumn
ParseColumns(t) ==
    /\ UNCHANGED dvars
    /\ pc[t] = "parseColumns"
    /\ LET fr == Top(stack[t])
           mod == heap[m[t]]
       IN IF fr.i > Len(fr.fields)
          THEN IF Len(stack[t]) = 1
               THEN /\ stack' = [stack EXCEPT ![t] = <<>>]
                    /\ pc' = [pc EXCEPT ![t] = "parseMeta"]
                    /\ pending' = [pending EXCEPT ![t] =
                          IF rtype[t].Meta.Has THEN DOMAIN rtype[t].Meta.KV ELSE {}]
                    /\ UNCHANGED <<heap, col>>
               ELSE /\ stack' = [stack EXCEPT ![t] = Pop(@)]
                    /\ UNCHANGED <<heap, col, pending, pc>>
          ELSE LET field == fr.fields[fr.i]
                   c == Append(fr.path, fr.i)
                   made == [mod EXCEPT !.columns = Put(@, c, newColumn(field))]
               IN IF field.Anonymous
                  THEN /\ stack' = [stack EXCEPT ![t] =
                             Append(@, [fields |-> field.Type.Fields, i |-> 1, path |-> c])]
                       /\ UNCHANGED <<heap, col, pending, pc>>
                  ELSE IF IsLower(field.Name[1]) \/ field.Tag.Txt = "-"
                  THEN /\ stack' = [stack EXCEPT ![t] = Advance(@)]
                       /\ UNCHANGED <<heap, col, pending, pc>>
                  ELSE IF field.Tag.Txt = ""
                  THEN /\ heap' = [heap EXCEPT ![m[t]] =
                             [made EXCEPT !.Cols = Put(@, made.columns[c].Name, c)]]
                       /\ stack' = [stack EXCEPT ![t] = Advance(@)]
                       /\ UNCHANGED <<col, pending, pc>>
                  ELSE /\ heap' = [heap EXCEPT ![m[t]] = made]
                       /\ col' = [col EXCEPT ![t] = c]
                       /\ pending' = [pending EXCEPT ![t] = DOMAIN field.Tag.KV]
                       /\ pc' = [pc EXCEPT ![t] = "parseColumn"]
                       /\ UNCHANGED stack
    /\ UNCHANGED <<objs, items, mutex, nextId, obj, rtype, m, dropped, visited, ret, trace, calls>>

\* lines 362-399: one iteration of the range loop over the map tags.Parse
\* returned (Go visits the keys of a map in an unspecified order), or its end
ParseColumn(t) ==
    /\ UNCHANGED dvars
    /\ pc[t] = "parseColumn"
    /\ LET fr == Top(stack[t])
           field == fr.fields[fr.i]
           mod == heap[m[t]]
           c == col[t]
       IN IF pending[t] = {}
          THEN /\ heap' = [heap EXCEPT ![m[t]] =
                     [mod EXCEPT !.Cols = Put(@, mod.columns[c].Name, c)]]
               /\ stack' = [stack EXCEPT ![t] = Advance(@)]
               /\ col' = [col EXCEPT ![t] = Nil]
               /\ pc' = [pc EXCEPT ![t] = "parseColumns"]
               /\ UNCHANGED <<objs, items, mutex, nextId, obj, rtype, m, pending,
                              dropped, visited, ret, trace, calls>>
          ELSE \E k \in pending[t] :
               LET r == applyTag(mod, c, k, field.Tag.KV[k])
                   ord == Append(visited[t], [c |-> c, k |-> k, err |-> r.err])
               IN IF r.err = NoErr
                  THEN /\ heap' = [heap EXCEPT ![m[t]] = r.m]
                       /\ pending' = [pending EXCEPT ![t] = @ \ {k}]
                       /\ visited' = [visited EXCEPT ![t] = ord]
                       /\ UNCHANGED <<objs, items, mutex, nextId, pc, obj, rtype, m,
                                      stack, col, dropped, ret, trace, calls>>
                  ELSE IF Len(stack[t]) > 1
                  THEN \* line 332 discards the error of the embedded struct
                       /\ heap' = [heap EXCEPT ![m[t]] = r.m]
                       /\ stack' = [stack EXCEPT ![t] = Pop(@)]
                       /\ col' = [col EXCEPT ![t] = Nil]
                       /\ pending' = [pending EXCEPT ![t] = {}]
                       /\ dropped' = [dropped EXCEPT ![t] = Append(@, r.err)]
                       /\ visited' = [visited EXCEPT ![t] = ord]
                       /\ pc' = [pc EXCEPT ![t] = "parseColumns"]
                       /\ UNCHANGED <<objs, items, mutex, nextId, obj, rtype, m, ret,
                                      trace, calls>>
                  ELSE Fail(t, r.err, ord)

\* lines 403-443: one iteration of the range loop of parseMeta, or its end
ParseMeta(t) ==
    /\ UNCHANGED dvars
    /\ pc[t] = "parseMeta"
    /\ IF pending[t] = {}
       THEN /\ pc' = [pc EXCEPT ![t] = "store"]
            /\ UNCHANGED <<objs, items, mutex, heap, nextId, obj, rtype, m, stack,
                           col, pending, dropped, visited, ret, trace, calls>>
       ELSE \E k \in pending[t] :
            LET r == applyMeta(heap[m[t]], k, rtype[t].Meta.KV[k])
                ord == Append(visited[t], [c |-> Nil, k |-> k, err |-> r.err])
            IN IF r.err = NoErr
               THEN /\ heap' = [heap EXCEPT ![m[t]] = r.m]
                    /\ pending' = [pending EXCEPT ![t] = @ \ {k}]
                    /\ visited' = [visited EXCEPT ![t] = ord]
                    /\ UNCHANGED <<objs, items, mutex, nextId, pc, obj, rtype, m,
                                   stack, col, dropped, ret, trace, calls>>
               ELSE Fail(t, r.err, ord)

\* lines 320-321: the Model enters the cache and is returned
Store(t) ==
    /\ UNCHANGED dvars
    /\ pc[t] = "store"
    /\ items' = Put(items, rtype[t], m[t])
    /\ mutex' = 0
    /\ Return(t, rtype[t], m[t], NoErr, FALSE, m[t], visited[t])
    /\ UNCHANGED <<objs, heap, nextId, calls>>

\* lines 623-628
Clear(t) ==
    /\ UNCHANGED dvars
    /\ pc[t] = "idle"
    /\ calls > 0
    /\ mutex = 0
    /\ calls' = calls - 1
    /\ items' = EmptyMap
    /\ trace' = Append(trace, ClearEvent(t))
    /\ UNCHANGED <<objs, mutex, heap, nextId, pc, obj, rtype, m, stack, col,
                   pending, dropped, visited, ret>>

(* --------------------------- record types ----------------------------- *)

NoTag == [Txt |-> "", KV |-> EmptyMap]
SkipTag == [Txt |-> "-", KV |-> EmptyMap]
\* the struct tag whose text tags.Parse turns into the map of the clauses cs
Tag(cs) == [Txt |-> "orm", KV |-> [k \in {c.k : c \in cs} |-> (CHOOSE c \in cs : c.k = k).v]]
DistinctKeys(cs) == \A c, d \in cs : c.k = d.k => c = d

NoMeta == [Has |-> FALSE, KV |-> EmptyMap]
Meta(cs) == [Has |-> TRUE, KV |-> Tag(cs).KV]

Field(name, kind, tag) ==
    [Name |-> name, Anonymous |-> FALSE, Type |-> [Kind |-> kind], Tag |-> tag]
StructType(name, fields, meta) ==
    [Kind |-> "Struct", Name |-> name, Fields |-> fields, Meta |-> meta]
Embedded(name, fields) ==
    [Name |-> name, Anonymous |-> TRUE, Type |-> StructType(name, fields, NoMeta),
     Tag |-> NoTag]
IntType == [Kind |-> "Int", Name |-> <<"i", "n", "t">>, Fields |-> <<>>, Meta |-> NoMeta]
Value(ty) == [Ptr |-> 0, Type |-> ty]
Pointer(ty) == [Ptr |-> 1, Type |-> ty]

Cl(k, v) == [k |-> k, v |-> v]

\* the clauses of the order- and state-dependent handlers
CoreClauses ==
    {Cl("pk", <<>>), Cl("ai", <<>>), Cl("default", <<<<"5">>>>), Cl("occ", <<>>),
     Cl("nullable", <<>>), Cl("index", <<<<"x">>>>), Cl("index", <<<<"X">>>>),
     Cl("unique", <<<<"x">>>>), Cl("unique", <<<<"X">>>>)}

\* the other keys, and wrong arities and literals
OtherClauses ==
    {Cl("name", <<<<"B">>>>), Cl("name", <<>>), Cl("len", <<<<"5">>>>),
     Cl("len", <<<<"5">>, <<"-", "1">>>>), Cl("len", <<<<"x">>>>),
     Cl("fk", <<<<"x">>, <<"t">>, <<"c">>>>), Cl("fk", <<<<"X">>>>),
     Cl("foo", <<>>), Cl("pk", <<<<"1">>>>), Cl("ai", <<<<"1">>>>),
     Cl("occ", <<<<"0">>>>), Cl("occ", <<<<"T">>>>), Cl("occ", <<<<"x">>>>),
     Cl("nullable", <<<<"f">>>>), Cl("default", <<>>), Cl("index", <<>>),
     Cl("unique", <<>>)}

\* the sets of at most two core clauses with different keys
CorePairs == {x \in SUBSET CoreClauses : Cardinality(x) <= 2 /\ DistinctKeys(x)}

\* annotations of up to two core clauses
CoreTags == {Tag(cs) : cs \in CorePairs}

\* annotations of one clause of any kind, alone or with one or two core clauses
WideTags ==
    {Tag(cs) : cs \in {x \in {y \cup {c} : y \in CorePairs, c \in CoreClauses \cup OtherClauses} :
                          DistinctKeys(x)}}

A == <<"A">>
B == <<"B">>
C == <<"C">>
E == <<"E">>
T == <<"T">>

MetaTags ==
    {NoMeta, Meta({}), Meta({Cl("check", <<<<"x">>, <<"e">>>>)}),
     Meta({Cl("check", <<<<"X">>, <<"e">>>>)}), Meta({Cl("check", <<<<"x">>>>)}),
     Meta({Cl("name", <<<<"t">>>>), Cl("engine", <<<<"e">>>>)}),
     Meta({Cl("name", <<>>)})}

\* one field, at the top level or in an embedded struct
OneFieldTypes ==
    {StructType(T, fs, NoMeta) :
        fs \in UNION {{<<Field(A, k, tg)>>, <<Embedded(E, <<Field(A, k, tg)>>)>>} :
                          k \in {"Int", "String"}, tg \in WideTags}}

\* two integer fields, each at the top level or in an embedded struct
TwoFieldTypes ==
    {StructType(T, fs, NoMeta) :
        fs \in UNION {{<<Field(A, "Int", ta), Field(B, "Int", tb)>>,
                       <<Field(A, "Int", ta), Embedded(E, <<Field(B, "Int", tb)>>)>>,
                       <<Embedded(E, <<Field(A, "Int", ta)>>), Field(B, "Int", tb)>>,
                       <<Embedded(E, <<Field(A, "Int", ta), Field(B, "Int", tb)>>)>>} :
                          ta \in CoreTags, tb \in CoreTags}}

\* skipped fields, a struct embedded in an embedded struct, and Meta()
OtherTypes ==
    {StructType(T, <<Field(<<"a">>, "Int", Tag({Cl("foo", <<>>)})),
                     Field(B, "String", SkipTag),
                     Field(C, "String", NoTag),
                     Field(A, "Int", Tag({c}))>>, mt) :
        c \in {Cl("index", <<<<"x">>>>), Cl("index", <<<<"X">>>>), Cl("name", <<<<"C">>>>)},
        mt \in MetaTags}
    \cup
    {StructType(T, <<Embedded(E, <<Embedded(E, <<Field(A, "Int", ta)>>),
                                   Field(B, "Int", Tag({Cl("pk", <<>>)}))>>),
                     Field(C, "Int", NoTag)>>, NoMeta) :
        ta \in CoreTags}

\* two fields that resolve to one column name: by a name clause, or by
\* an embedded struct with a field of the same name
RenamedTypes ==
    {StructType(T, <<Field(A, "Int", Tag({c})),
                     Field(B, "Int", Tag({Cl("name", <<A>>)}))>>, NoMeta) :
        c \in {Cl("pk", <<>>), Cl("ai", <<>>), Cl("occ", <<>>), Cl("index", <<<<"x">>>>),
               Cl("unique", <<<<"x">>>>), Cl("fk", <<<<"x">>, <<"t">>, <<"c">>>>)}}
    \cup
    {StructType(T, <<Field(A, "Int", NoTag),
                     Embedded(E, <<Field(A, "String", NoTag)>>)>>, NoMeta)}

ParseTypes == OneFieldTypes \cup TwoFieldTypes \cup OtherTypes \cup RenamedTypes \cup {IntType}

\* the record types the cache is exercised with
IdType == StructType(T, <<Field(A, "Int", Tag({Cl("ai", <<>>)}))>>, Meta({Cl("name", <<<<"t">>>>)}))
PkAiType == StructType(A, <<Field(A, "Int", Tag({Cl("pk", <<>>), Cl("ai", <<>>)}))>>, NoMeta)
EmbPkAiType ==
    StructType(E, <<Embedded(E, <<Field(A, "Int", Tag({Cl("pk", <<>>), Cl("ai", <<>>)}))>>)>>,
               NoMeta)
BadMetaType ==
    StructType(C, <<Field(A, "Int", Tag({Cl("index", <<<<"x">>>>)}))>>,
               Meta({Cl("check", <<<<"x">>, <<"e">>>>)}))

CacheObjs ==
    {Pointer(IdType), Value(PkAiType), Value(EmbPkAiType), Value(BadMetaType),
     Value(IntType)}

(* ------------------------------ dialect ------------------------------- *)

\* the string literals of the dialect
SCreateTable ==
    <<"C", "R", "E", "A", "T", "E", " ", "T", "A", "B", "L", "E", " ", "I",
      "F", " ", "N", "O", "T", " ", "E", "X", "I", "S", "T", "S", " ">>
SPrimaryKeyAI ==
    <<" ", "P", "R", "I", "M", "A", "R", "Y", " ", "K", "E", "Y", " ", "A",
      "U", "T", "O", "_", "I", "N", "C", "R", "E", "M", "E", "N", "T", ",">>
SEngine ==
    <<" ", "E", "N", "G", "I", "N", "E", "=">>
SCharset ==
    <<" ", "C", "H", "A", "R", "A", "C", "T", "E", "R", " ", "S", "E", "T",
      "=">>
SIndex ==
    <<" ", "I", "N", "D", "E", "X", " ">>
SBoolean ==
    <<"B", "O", "O", "L", "E", "A", "N">>
SSmallint ==
    <<"S", "M", "A", "L", "L", "I", "N", "T">>
SMediumint ==
    <<"M", "E", "D", "I", "U", "M", "I", "N", "T">>
SInt ==
    <<"I", "N", "T">>
SBigint ==
    <<"B", "I", "G", "I", "N", "T">>
SUnsigned ==
    <<" ", "U", "N", "S", "I", "G", "N", "E", "D">>
SDouble ==
    <<"D", "O", "U", "B", "L", "E">>
SLongtext ==
    <<"L", "O", "N", "G", "T", "E", "X", "T">>
SVarchar ==
    <<"V", "A", "R", "C", "H", "A", "R">>
SDatetime ==
    <<"D", "A", "T", "E", "T", "I", "M", "E">>

\* the longest VARCHAR (lines 190, 201, 219)
MaxVarchar == 65533

\* sqlbuilder.SQLBuilder: a buffer of characters
WriteString(w, s) == w \o s
WriteByte(w, c) == Append(w, c)
TruncateLast(w, n) == SubSeq(w, 1, Len(w) - n)

DigitChar(d) ==
    CASE d = 0 -> "0" [] d = 1 -> "1" [] d = 2 -> "2" [] d = 3 -> "3"
      [] d = 4 -> "4" [] d = 5 -> "5" [] d = 6 -> "6" [] d = 7 -> "7"
      [] d = 8 -> "8" [] d = 9 -> "9"

RECURSIVE NatChars(_)
NatChars(n) ==
    IF n < 10 THEN <<DigitChar(n)>>
    ELSE Append(NatChars(n \div 10), DigitChar(n % 10))

\* strconv.Itoa, and %d of fmt.Sprintf
Itoa(n) == IF n < 0 THEN <<"-">> \o NatChars(0 - n) ELSE NatChars(n)

\* the reflect.Type values sqlType compares col.GoType with
nullBool == [Kind |-> "Struct", Name |-> "NullBool"]
nullFloat64 == [Kind |-> "Struct", Name |-> "NullFloat64"]
nullInt64 == [Kind |-> "Struct", Name |-> "NullInt64"]
nullString == [Kind |-> "Struct", Name |-> "NullString"]
timeType == [Kind |-> "Struct", Name |-> "Time"]

\* what a function writing to a buffer leaves: the buffer and its error
Wrote(buf) == [w |-> buf, err |-> NoErr]
Refused(buf, e) == [w |-> buf, err |-> e]

\* lines 145-151
addIntLen(buf, column) ==
    IF column.Len1 > 0
    THEN WriteByte(WriteString(WriteByte(buf, "("), Itoa(column.Len1)), ")")
    ELSE buf

\* lines 185-188 and 211-214
doubleType(buf, column) ==
    IF column.Len1 = 0 \/ column.Len2 = 0
    THEN Refused(buf, "sqlType: length required")
    ELSE Wrote(WriteString(buf, SDouble \o <<"(">> \o Itoa(column.Len1) \o <<",">>
                                        \o Itoa(column.Len2) \o <<")">>))

\* lines 190-194, 201-205 and 219-223
textType(buf, column) ==
    IF column.Len1 = -1 \/ column.Len1 > MaxVarchar
    THEN Wrote(WriteString(buf, SLongtext))
    ELSE Wrote(WriteString(buf, SVarchar \o <<"(">> \o Itoa(column.Len1) \o <<")">>))

\* lines 206-226: the switch on the type of a struct, which has no default
structType(buf, column) ==
    CASE column.GoType = nullBool -> Wrote(WriteString(buf, SBoolean))
      [] column.GoType = nullFloat64 -> doubleType(buf, column)
      [] column.GoType = nullInt64 -> Wrote(addIntLen(WriteString(buf, SBigint), column))
      [] column.GoType = nullString -> textType(buf, column)
      [] column.GoType = timeType -> Wrote(WriteString(buf, SDatetime))
      [] OTHER -> Wrote(buf)

\* lines 136-232; column is Nil for a nil *Column
sqlType(buf, column) ==
    IF column = Nil
    THEN Refused(buf, "sqlType: nil col")
    ELSE IF column.GoType = Nil
    THEN Refused(buf, "sqlType: nil GoType")
    ELSE LET k == column.GoType.Kind IN
    CASE k = "Bool" -> Wrote(WriteString(buf, SBoolean))
      [] k = "Int8" -> Wrote(addIntLen(WriteString(buf, SSmallint), column))
      [] k = "Int16" -> Wrote(addIntLen(WriteString(buf, SMediumint), column))
      [] k = "Int32" -> Wrote(addIntLen(WriteString(buf, SInt), column))
      [] k \in {"Int64", "Int"} -> Wrote(addIntLen(WriteString(buf, SBigint), column))
      [] k = "Uint8" ->
           Wrote(WriteString(addIntLen(WriteString(buf, SSmallint), column), SUnsigned))
      [] k = "Uint16" ->
           Wrote(WriteString(addIntLen(WriteString(buf, SMediumint), column), SUnsigned))
      [] k = "Uint32" ->
           Wrote(WriteString(addIntLen(WriteString(buf, SInt), column), SUnsigned))
      [] k \in {"Uint64", "Uint", "Uintptr"} ->
           Wrote(WriteString(addIntLen(WriteString(buf, SBigint), column), SUnsigned))
      [] k \in {"Float32", "Float64"} -> doubleType(buf, column)
      [] k = "String" -> textType(buf, column)
      [] k \in {"Slice", "Array"} ->
           IF column.GoType.Elem.Kind \notin {"Uint8", "Int32"}
           THEN Refused(buf, "sqlType: unsupported element type")
           ELSE textType(buf, column)
      [] k = "Struct" -> structType(buf, column)
      [] OTHER -> Refused(buf, "sqlType: unsupported type")

\* the literals of createPKSQL and createConstraints
SConstraint ==
    <<" ", "C", "O", "N", "S", "T", "R", "A", "I", "N", "T", " ">>
SPrimaryKey ==
    <<" ", "P", "R", "I", "M", "A", "R", "Y", " ", "K", "E", "Y", "(">>
SCheck ==
    <<" ", "C", "H", "E", "C", "K", "(">>
SForeignKey ==
    <<" ", "F", "O", "R", "E", "I", "G", "N", " ", "K", "E", "Y", "(">>
SReferences ==
    <<")", " ", "R", "E", "F", "E", "R", "E", "N", "C", "E", "S", " ">>
pkName ==
    <<"p", "k">>

\* the column's quoted name and its type
createColSQL(w, column) ==
    sqlType(WriteByte(WriteByte(WriteString(WriteByte(w, "{"), column.Name), "}"), " "),
            column)

\* lines 114-117: the quoted name of each column, each followed by a comma
RECURSIVE writeNames(_, _, _)
writeNames(w, mod, cols) ==
    IF cols = <<>> THEN w
    ELSE writeNames(WriteByte(WriteByte(WriteString(WriteByte(w, "{"),
                                                    mod.columns[Head(cols)].Name), "}"), ","),
                    mod, Tail(cols))

\* the primary-key constraint clause
createPKSQL(w, mod, cols, name) ==
    WriteByte(TruncateLast(writeNames(WriteString(WriteString(WriteString(w, SConstraint),
                                                              name), SPrimaryKey),
                                      mod, cols), 1), ")")

\* the check constraints in names, each followed by a comma
RECURSIVE writeChecks(_, _, _)
writeChecks(w, mod, names) ==
    IF names = {} THEN w
    ELSE LET n == CHOOSE x \in names : TRUE
         IN writeChecks(WriteString(w, SConstraint \o n \o SCheck \o mod.Check[n]
                                        \o <<")", ",">>),
                        mod, names \ {n})

\* the foreign keys in names, each followed by a comma
RECURSIVE writeFKs(_, _, _)
writeFKs(w, mod, names) ==
    IF names = {} THEN w
    ELSE LET n == CHOOSE x \in names : TRUE
             k == mod.FK[n]
         IN writeFKs(WriteString(w, SConstraint \o n \o SForeignKey \o <<"{">>
                                     \o mod.columns[k.Col].Name \o <<"}">> \o SReferences
                                     \o k.RefTableName \o <<"(">> \o k.RefColName
                                     \o <<")", ",">>),
                     mod, names \ {n})

\* the check constraints, then the foreign keys
createConstraints(w, mod) ==
    writeFKs(writeChecks(w, mod, DOMAIN mod.Check), mod, DOMAIN mod.FK)

\* lines 108-122, the range over model.KeyIndexes visiting the names in order
RECURSIVE createIndexSQL(_, _, _)
createIndexSQL(w, mod, order) ==
    IF order = <<>> THEN w
    ELSE LET indexName == Head(order)
             opened == WriteByte(WriteString(WriteString(w, SIndex), indexName), "(")
             named == writeNames(opened, mod, mod.KeyIndexes[indexName])
         IN createIndexSQL(WriteString(TruncateLast(named, 1), <<")", ",">>),
                           mod, Tail(order))

\* lines 89-95 and 97-103: one table option
tableOption(w, mod, key, literal) ==
    LET vals == Get(mod.Meta, key, <<>>)
    IN IF Len(vals) = 1
       THEN Wrote(WriteByte(WriteString(WriteString(w, literal), vals[1]), " "))
       ELSE IF Len(vals) > 0
       THEN Refused(w, "createTableOptions: invalid value")
       ELSE Wrote(w)

\* lines 88-106
createTableOptions(w, mod) ==
    LET e == tableOption(w, mod, "engine", SEngine)
    IN IF e.err # NoErr THEN e
       ELSE tableOption(e.w, mod, "charset", SCharset)

\* lines 57-67, the range over model.Cols visiting the names in order; done
\* is the columns written so far
RECURSIVE writeCols(_, _, _, _)
writeCols(w, mod, names, done) ==
    IF names = <<>> THEN [w |-> w, err |-> NoErr, order |-> done]
    ELSE LET c == mod.Cols[Head(names)]
         IN IF IsAI(mod, c)
            THEN writeCols(w, mod, Tail(names), done)
            ELSE LET r == createColSQL(w, mod.columns[c])
                 IN IF r.err # NoErr
                    THEN [w |-> r.w, err |-> r.err, order |-> done]
                    ELSE writeCols(WriteByte(r.w, ","), mod, Tail(names), Append(done, c))

\* lines 69-73 as they would be without the test of PK[0].IsAI()
writePKWithAI(w, mod) ==
    IF Len(mod.PK) > 0
    THEN WriteByte(createPKSQL(w, mod, mod.PK, pkName), ",")
    ELSE w

\* lines 69-73
writePK(w, mod) ==
    IF Len(mod.PK) > 0 /\ ~IsAI(mod, mod.PK[1])
    THEN WriteByte(createPKSQL(w, mod, mod.PK, pkName), ",")
    ELSE w

\* what CreateTableSQL returns, with the columns in the order it wrote them
\* and the character line 79 removed
Statement(stmts, e, ord, cut) == [stmts |-> stmts, err |-> e, order |-> ord, cut |-> cut]

\* lines 43-86, the two range loops visiting the keys in colOrder and idxOrder
createTable(mod, colOrder, idxOrder) ==
    LET header == WriteString(WriteString(WriteString(SCreateTable, <<"{", "#">>),
                                          mod.Name), <<"}", "(">>)
        ai == IF mod.AI # Nil THEN createColSQL(header, mod.columns[mod.AI])
              ELSE Wrote(header)
    IN IF ai.err # NoErr THEN Statement(<<>>, ai.err, <<>>, "")
       ELSE
       LET marked == IF mod.AI # Nil THEN WriteString(ai.w, SPrimaryKeyAI) ELSE ai.w
           cs == writeCols(marked, mod, colOrder, IF mod.AI # Nil THEN <<mod.AI>> ELSE <<>>)
       IN IF cs.err # NoErr THEN Statement(<<>>, cs.err, cs.order, "")
          ELSE
          LET body == createIndexSQL(createConstraints(writePK(cs.w, mod), mod),
                                     mod, idxOrder)
              closed == WriteByte(TruncateLast(body, 1), ")")
              opts == createTableOptions(closed, mod)
          IN IF opts.err # NoErr THEN Statement(<<>>, opts.err, cs.order, body[Len(body)])
             ELSE Statement(<<opts.w>>, NoErr, cs.order, body[Len(body)])

\* the orders in which a range loop can visit the keys of a map
Perms(keys) ==
    {f \in [1..Cardinality(keys) -> keys] : \A i, j \in DOMAIN f : f[i] = f[j] => i = j}

\* lines 43-86: CreateTableSQL of a Model New has returned
CreateTableSQL(t) ==
    /\ dcalls > 0
    /\ dpc[t] = "idle"
    /\ pc[t] = "idle"
    /\ \E i \in DOMAIN trace :
         /\ trace[i].op = "New"
         /\ trace[i].err = NoErr
         /\ LET mod == heap[trace[i].m]
            IN \E colOrder \in Perms(DOMAIN mod.Cols),
                  idxOrder \in Perms(DOMAIN mod.KeyIndexes) :
                  LET r == createTable(mod, colOrder, idxOrder)
                  IN out' = Append(out, [op |-> "CreateTableSQL", g |-> t,
                                         m |-> trace[i].m, stmts |-> r.stmts,
                                         err |-> r.err, order |-> r.order, cut |-> r.cut])
    /\ dcalls' = dcalls - 1
    /\ UNCHANGED <<mysqlInst, dpc>>
    /\ UNCHANGED mvars

\* the reflect.Type of fields
Basic(kind) == [Kind |-> kind]
SliceOf(elem) == [Kind |-> "Slice", Elem |-> elem]
ArrayOf(elem) == [Kind |-> "Array", Elem |-> elem]
Named(name) == [Kind |-> "Struct", Name |-> name]

GoTypes ==
    {Basic(k) : k \in IntKinds \cup {"Bool", "Uintptr", "Float32", "Float64", "String",
                                     "Complex128", "Map", "Chan", "Func"}}
    \cup {SliceOf(Basic(k)) : k \in {"Uint8", "Int32", "Int", "String"}}
    \cup {ArrayOf(Basic(k)) : k \in {"Uint8", "Int64"}}
    \cup {nullBool, nullFloat64, nullInt64, nullString, timeType, Named("Point"),
          Named("NullInt32")}

Lens1 == {-5, -1, 0, 1, 100, MaxVarchar, MaxVarchar + 1}
Lens2 == {-1, 0, 2}

\* the columns sqlType is applied to
TypeColumns ==
    {Nil} \cup
    {[Name |-> A, GoType |-> ty, Len1 |-> l1, Len2 |-> l2, Nullable |-> FALSE,
      HasDefault |-> FALSE, Default |-> <<>>] :
        ty \in GoTypes \cup {Nil}, l1 \in Lens1, l2 \in Lens2}

\* lines 136-232: sqlType of a column, on an empty buffer
SqlType(t) ==
    /\ dcalls > 0
    /\ dpc[t] = "idle"
    /\ \E column \in TypeColumns :
         LET r == sqlType(<<>>, column)
         IN out' = Append(out, [op |-> "sqlType", g |-> t, col |-> column,
                                w |-> r.w, err |-> r.err])
    /\ dcalls' = dcalls - 1
    /\ UNCHANGED <<mysqlInst, dpc>>
    /\ UNCHANGED mvars

\* &mysql{}: mysql is struct{}, and Go lets pointers to distinct zero-size
\* variables be equal or different
ZeroBase == <<"zerobase">>
Object(n) == <<"object", n>>

\* line 28: the unsynchronised read of mysqlInst
MysqlTest(t) ==
    /\ dcalls > 0
    /\ dpc[t] = "idle"
    /\ dcalls' = dcalls - 1
    /\ dpc' = [dpc EXCEPT ![t] = IF mysqlInst = Nil THEN "assign" ELSE "return"]
    /\ UNCHANGED <<mysqlInst, out>>
    /\ UNCHANGED mvars

\* line 29
MysqlAssign(t) ==
    /\ dpc[t] = "assign"
    /\ \E a \in {ZeroBase, Object(nextId)} : mysqlInst' = a
    /\ nextId' = nextId + 1
    /\ dpc' = [dpc EXCEPT ![t] = "return"]
    /\ UNCHANGED <<out, dcalls>>
    /\ UNCHANGED <<objs, items, mutex, heap, pc, obj, rtype, m, stack, col,
                   pending, dropped, visited, ret, trace, calls>>

\* line 32: Mysql returns what mysqlInst holds now
MysqlReturn(t) ==
    /\ dpc[t] = "return"
    /\ out' = Append(out, [op |-> "Mysql", g |-> t, inst |-> mysqlInst])
    /\ dpc' = [dpc EXCEPT ![t] = "idle"]
    /\ UNCHANGED <<mysqlInst, dcalls>>
    /\ UNCHANGED mvars

IndexXTag == Tag({Cl("index", <<<<"x">>>>)})

\* a field of any type
TypedField(name, type, tag) ==
    [Name |-> name, Anonymous |-> FALSE, Type |-> type, Tag |-> tag]

\* the record of the end-to-end example: an ai integer, a string of length
\* 50 and a float64 of length (5,2)
ExampleType ==
    StructType(T, <<Field(A, "Int", Tag({Cl("ai", <<>>)})),
                    Field(B, "String", Tag({Cl("len", <<<<"5", "0">>>>)})),
                    Field(C, "Float64", Tag({Cl("len", <<<<"5">>, <<"2">>>>)}))>>, NoMeta)

EmptyType == StructType(T, <<>>, NoMeta)

TableMetas ==
    {NoMeta,
     Meta({Cl("engine", <<<<"e">>>>), Cl("charset", <<<<"c">>>>)}),
     Meta({Cl("engine", <<<<"e">>, <<"x">>>>)}),
     Meta({Cl("charset", <<>>), Cl("check", <<<<"y">>, <<"e">>>>)})}

\* the record types CreateTableSQL is exercised with
SQLTypes ==
    {ExampleType, EmptyType}
    \cup
    {StructType(T, <<Field(A, "Int", ta), Field(B, "Int", tb)>>, mt) :
        ta \in {NoTag, Tag({Cl("pk", <<>>)}), Tag({Cl("ai", <<>>)}),
                Tag({Cl("pk", <<>>), Cl("ai", <<>>)}), IndexXTag},
        tb \in {NoTag, Tag({Cl("pk", <<>>)}), IndexXTag, Tag({Cl("index", <<<<"X">>>>)})},
        mt \in TableMetas}
    \cup
    {StructType(T, <<TypedField(A, ty, tg), Field(B, "Int", NoTag)>>, NoMeta) :
        ty \in {Basic("Float64"), Basic("String"), Named("Point"), Basic("Map")},
        tg \in {NoTag, Tag({Cl("fk", <<<<"x">>, <<"t">>, <<"c">>>>)}),
                Tag({Cl("len", <<<<"-", "5">>>>)})}}
    \cup
    {StructType(T, <<Embedded(E, <<Field(A, "Int", Tag({Cl("pk", <<>>), Cl("foo", <<>>)}))>>),
                     Field(B, "Int", NoTag)>>, NoMeta)}

(* --------------------------- specification ---------------------------- *)

Start(os, n, d) ==
    /\ objs = os
    /\ items = EmptyMap
    /\ mutex = 0
    /\ heap = EmptyMap
    /\ nextId = 1
    /\ pc = [t \in Threads |-> "idle"]
    /\ obj = [t \in Threads |-> Nil]
    /\ rtype = [t \in Threads |-> Nil]
    /\ m = [t \in Threads |-> 0]
    /\ stack = [t \in Threads |-> <<>>]
    /\ col = [t \in Threads |-> Nil]
    /\ pending = [t \in Threads |-> {}]
    /\ dropped = [t \in Threads |-> <<>>]
    /\ visited = [t \in Threads |-> <<>>]
    /\ ret = [t \in Threads |-> [m |-> 0, err |-> NoErr]]
    /\ trace = <<>>
    /\ calls = n
    /\ mysqlInst = Nil
    /\ dpc = [t \in Threads |-> "idle"]
    /\ out = <<>>
    /\ dcalls = d

Step(t) ==
    \/ New(t)
    \/ Lock(t)
    \/ ParseColumns(t)
    \/ ParseColumn(t)
    \/ ParseMeta(t)
    \/ Store(t)
    \/ Clear(t)

\* goroutines calling New and Clear on a handful of record types
Init == Start(CacheObjs, MaxCalls, 0)
Next == \E t \in Threads : Step(t)
Spec == Init /\ [][Next]_vars

\* one goroutine building one record type, drawn from all the annotations
InitParse == \E ty \in ParseTypes : Start({Value(ty)}, MaxParseCalls, 0)
NextParse == Step(1)
SpecParse == InitParse /\ [][NextParse]_vars

\* one goroutine building one record type and asking for its CREATE TABLE
InitSQL == \E ty \in SQLTypes : Start({Value(ty)}, MaxParseCalls, MaxSQLCalls)
NextSQL == Step(1) \/ CreateTableSQL(1)
SpecSQL == InitSQL /\ [][NextSQL]_vars

\* sqlType applied to one column
InitType == Start({}, 0, MaxTypeCalls)
NextType == SqlType(1)
SpecType == InitType /\ [][NextType]_vars

\* goroutines calling Mysql()
InitMysql == Start({}, 0, MaxMysqlCalls)
NextMysql == \E t \in Threads : MysqlTest(t) \/ MysqlAssign(t) \/ MysqlReturn(t)
SpecMysql == InitMysql /\ [][NextMysql]_vars

(* ------------------------------ claims -------------------------------- *)

IsNew(e) == e.op = "New"
Succeeded(e) == e.op = "New" /\ e.err = NoErr
Failed(e) == e.op = "New" /\ e.err # NoErr
\* the call ran lines 301-321 instead of returning the cached Model or ErrInvalidKind
Constructed(e) == e.op = "New" /\ e.tmp # 0
ClearBetween(i, j) == \E k \in DOMAIN trace : i < k /\ k < j /\ trace[k].op = "Clear"
NoClear == \A i \in DOMAIN trace : trace[i].op # "Clear"
Building(t) == pc[t] \in {"parseColumns", "parseColumn", "parseMeta", "store"}

\* the value a Model denotes, with every *Column replaced by the Column it
\* points to: what reflect.DeepEqual compares
Deref(mod, c) == IF c = Nil THEN Nil ELSE mod.columns[c]
Expand(mod) ==
    [Name |-> mod.Name,
     Cols |-> [n \in DOMAIN mod.Cols |-> Deref(mod, mod.Cols[n])],
     KeyIndexes |-> [n \in DOMAIN mod.KeyIndexes |->
                        [i \in DOMAIN mod.KeyIndexes[n] |-> Deref(mod, mod.KeyIndexes[n][i])]],
     UniqueIndexes |-> [n \in DOMAIN mod.UniqueIndexes |->
                        [i \in DOMAIN mod.UniqueIndexes[n] |-> Deref(mod, mod.UniqueIndexes[n][i])]],
     FK |-> [n \in DOMAIN mod.FK |-> [mod.FK[n] EXCEPT !.Col = Deref(mod, @)]],
     PK |-> [i \in DOMAIN mod.PK |-> Deref(mod, mod.PK[i])],
     AI |-> Deref(mod, mod.AI),
     OCC |-> Deref(mod, mod.OCC),
     Check |-> mod.Check,
     Meta |-> mod.Meta,
     constraints |-> mod.constraints]
DeepEqual(m1, m2) == Expand(m1) = Expand(m2)

\* C1: two successful New of one record type return the identical *Model
\* when no Clear lies between them, and distinct but structurally equal
\* Models when a Clear does.
C1_CacheIdentity ==
    \A i, j \in DOMAIN trace :
        (i < j /\ Succeeded(trace[i]) /\ Succeeded(trace[j])
               /\ trace[i].rtype = trace[j].rtype)
        => IF ClearBetween(i, j)
           THEN /\ trace[j].m # trace[i].m
                /\ DeepEqual(heap[trace[j].m], heap[trace[i].m])
           ELSE trace[j].m = trace[i].m

Constructions(ty) ==
    Cardinality({i \in DOMAIN trace : Constructed(trace[i]) /\ trace[i].rtype = ty})
    + Cardinality({t \in Threads : Building(t) /\ rtype[t] = ty})

\* C2: with no Clear, a record type none of whose New has failed is
\* constructed (lines 301-321) at most once, by the goroutine that holds
\* the mutex while the others wait at Lock; every New of it returns the one
\* Model that construction stored.
C2_BuiltOnce ==
    /\ \A t \in Threads : Building(t) => mutex = t
    /\ \A o \in objs :
         LET ty == o.Type
             news == {i \in DOMAIN trace : IsNew(trace[i]) /\ trace[i].rtype = ty}
         IN (NoClear /\ \A i \in news : Succeeded(trace[i]))
            => /\ Constructions(ty) <= 1
               /\ \A i, j \in news : trace[i].m = trace[j].m
               /\ \A j \in news : trace[j].hit =>
                     \E i \in news : i < j /\ Constructed(trace[i])

\* two goroutines called New for one record type before it was cached: one
\* constructed it while the other waited at Lock, then got the same Model
C2_Witness ==
    /\ NoClear
    /\ \E i, j \in DOMAIN trace :
         /\ i < j
         /\ Constructed(trace[i]) /\ Succeeded(trace[i])
         /\ trace[j].g \in trace[i].waiters
         /\ Succeeded(trace[j]) /\ trace[j].hit
         /\ trace[j].rtype = trace[i].rtype
         /\ trace[j].m = trace[i].m

\* the step is a New returning an error
FailedReturn(old, new) == Len(new) = Len(old) + 1 /\ Failed(new[Len(new)])

FailedModelNeverReturned ==
    \A i, j \in DOMAIN trace :
        (Failed(trace[i]) /\ trace[i].tmp # 0) =>
            /\ trace[j].m # trace[i].tmp
            /\ \A ty \in DOMAIN items : items[ty] # trace[i].tmp

\* C3: a New that returns an error leaves models.items as it was, with no
\* entry for its record type, and the Model it was building is never in
\* the cache nor returned by any New.
C3_FailedBuildLeavesCache ==
    [][/\ FailedReturn(trace, trace') =>
            /\ items' = items
            /\ ~Has(items', trace'[Len(trace')].rtype)
       /\ FailedModelNeverReturned']_vars

\* a New failed on a column clause, and a later New of the same record type
\* constructed and returned a Model
C3_Witness ==
    \E i, j \in DOMAIN trace :
        /\ i < j
        /\ Failed(trace[i]) /\ trace[i].tmp # 0
        /\ Succeeded(trace[j]) /\ Constructed(trace[j])
        /\ trace[j].rtype = trace[i].rtype

\* C4: when a clause handler reports a violation for a field, embedded or
\* not, New returns that error and no Model, and caches nothing.
C4_FailFast ==
    \A i \in DOMAIN trace :
        LET e == trace[i]
            bad == {k \in DOMAIN e.order : e.order[k].c # Nil /\ e.order[k].err # NoErr}
        IN (Constructed(e) /\ bad # {})
           => /\ e.m = 0
              /\ \E k \in bad : e.err = e.order[k].err /\ \A l \in bad : k <= l
              /\ \A ty \in DOMAIN items : items[ty] # e.tmp

\* the record with the one field  A int `orm:"pk;ai"`
AiPkType == StructType(T, <<Field(A, "Int", Tag({Cl("pk", <<>>), Cl("ai", <<>>)}))>>, NoMeta)

\* C5 as claimed: New of AiPkType succeeds whichever of ai and pk the loop
\* visits first, with AI the column and PK the column alone.
C5_EitherOrder ==
    \A i \in DOMAIN trace :
        (Constructed(trace[i]) /\ trace[i].rtype = AiPkType)
        => /\ Succeeded(trace[i])
           /\ heap[trace[i].m].AI = <<1>>
           /\ heap[trace[i].m].PK = <<<<1>>>>

\* C5 as amended: visiting pk then ai, New of AiPkType succeeds with AI the
\* column and PK the column alone; visiting ai then pk, setPK refuses
\* (an AI column exists) and New returns that error and no Model.
C5_PkThenAi ==
    \A i \in DOMAIN trace :
        LET e == trace[i] IN
        (Constructed(e) /\ e.rtype = AiPkType)
        => /\ e.order[1].k = "pk" =>
                 /\ Succeeded(e)
                 /\ <<e.order[1].k, e.order[2].k>> = <<"pk", "ai">>
                 /\ heap[e.m].AI = <<1>>
                 /\ heap[e.m].PK = <<<<1>>>>
                 /\ heap[e.m].Cols = Put(EmptyMap, A, <<1>>)
           /\ e.order[1].k = "ai" =>
                 /\ <<e.order[1].k, e.order[2].k>> = <<"ai", "pk">>
                 /\ e.err = "setPK: ai exists"
                 /\ e.m = 0

\* AiPkType was built twice, once in each order
C5_Witness ==
    \E i, j \in DOMAIN trace :
        /\ Constructed(trace[i]) /\ trace[i].rtype = AiPkType
        /\ Constructed(trace[j]) /\ trace[j].rtype = AiPkType
        /\ trace[i].order[1].k = "ai" /\ Failed(trace[i])
        /\ trace[j].order[1].k = "pk" /\ Succeeded(trace[j])

Namespaces(mod) ==
    <<DOMAIN mod.KeyIndexes, DOMAIN mod.UniqueIndexes, DOMAIN mod.FK, DOMAIN mod.Check>>

\* C7: in every Model New returned, no two constraint names of different
\* kinds (index, unique, foreign key, check) are equal after lower-casing.
C7_NamesUnique ==
    \A i \in DOMAIN trace :
        Succeeded(trace[i]) =>
            LET ns == Namespaces(heap[trace[i].m])
            IN \A a, b \in 1..4 :
                   a # b => \A n1 \in ns[a], n2 \in ns[b] : ToLower(n1) # ToLower(n2)

\* the fields of a record type that become columns, with the *Column of each
RECURSIVE Retained(_, _)
Retained(fields, path) ==
    UNION {LET f == fields[i]
               c == Append(path, i)
           IN IF f.Anonymous THEN Retained(f.Type.Fields, c)
              ELSE IF IsLower(f.Name[1]) \/ f.Tag.Txt = "-" THEN {}
              ELSE {[c |-> c, f |-> f]} : i \in DOMAIN fields}

Declares(r, k, v) == Has(r.f.Tag.KV, k) /\ r.f.Tag.KV[k] = v

\* declaration order of two columns
Before(p, q) ==
    \E i \in DOMAIN p \cap DOMAIN q :
        p[i] < q[i] /\ \A j \in 1..(i - 1) : p[j] = q[j]

IndexX == Tag({Cl("index", <<<<"x">>>>)})

\* C8: New fails for a record type that declares index(x) on one column and
\* unique(x) on another, whichever comes first; for one whose two columns
\* both declare just index(x) it succeeds with KeyIndexes[x] those two
\* columns in declaration order.
C8_NamespaceExclusive ==
    \A i \in DOMAIN trace :
        LET e == trace[i]
            cols == Retained(e.rtype.Fields, <<>>)
        IN Constructed(e) =>
             /\ (\E r, q \in cols :
                    /\ r.c # q.c
                    /\ Declares(r, "index", <<<<"x">>>>)
                    /\ Declares(q, "unique", <<<<"x">>>>))
                => Failed(e)
             /\ (Cardinality(cols) = 2 /\ \A r \in cols : r.f.Tag = IndexX)
                => /\ Succeeded(e)
                   /\ \E r, q \in cols :
                         /\ Before(r.c, q.c)
                         /\ heap[e.m].KeyIndexes = Put(EmptyMap, <<"x">>, <<r.c, q.c>>)

\* C9: in every Model New returned, the OCC column if any is not nullable,
\* has an integer type and is not the AI column.
C9_OccColumn ==
    \A i \in DOMAIN trace :
        LET e == trace[i] IN
        (Succeeded(e) /\ heap[e.m].OCC # Nil)
        => /\ ~heap[e.m].columns[heap[e.m].OCC].Nullable
           /\ heap[e.m].columns[heap[e.m].OCC].GoType.Kind \in IntKinds
           /\ heap[e.m].AI # heap[e.m].OCC

\* C10: when setAI has made one field the AI column, the ai clause of
\* another field is refused and New returns no Model.
C10_DuplicateAI ==
    \A i \in DOMAIN trace :
        LET e == trace[i] IN
        Constructed(e) =>
            \A a, b \in DOMAIN e.order :
                (/\ a < b
                 /\ e.order[a].k = "ai" /\ e.order[a].err = NoErr
                 /\ e.order[b].k = "ai" /\ e.order[b].c # e.order[a].c)
                => e.order[b].err # NoErr /\ e.m = 0

\* C11: in every Model, as soon as AI is set PK is the AI column alone:
\* setAI replaces whatever pk clauses had put in PK, and a pk clause
\* visited after a successful ai clause is refused and adds nothing.
C11_AiSolePK ==
    /\ \A id \in DOMAIN heap : heap[id].AI # Nil => heap[id].PK = <<heap[id].AI>>
    /\ \A i \in DOMAIN trace :
          LET e == trace[i] IN
          Constructed(e) =>
              \A a, b \in DOMAIN e.order :
                  (a < b /\ e.order[a].k = "ai" /\ e.order[a].err = NoErr
                         /\ e.order[b].k = "pk")
                  => e.order[b].err # NoErr

\* New returned a Model for which pk was accepted on one column and then ai
\* on another: PK is the AI column alone
C11_Witness ==
    \E i \in DOMAIN trace :
        LET e == trace[i] IN
        /\ Succeeded(e) /\ Constructed(e)
        /\ \E a, b \in DOMAIN e.order :
              /\ a < b
              /\ e.order[a].k = "pk" /\ e.order[a].err = NoErr
              /\ e.order[b].k = "ai" /\ e.order[b].err = NoErr
              /\ e.order[a].c # e.order[b].c
              /\ heap[e.m].AI = e.order[b].c
              /\ heap[e.m].PK = <<e.order[b].c>>

\* C12: an assignment to m.Cols[name] never replaces a column already
\* stored under that name.
C12_InsertFresh ==
    [][\A id \in DOMAIN heap \cap DOMAIN heap' :
          \A n \in DOMAIN heap[id].Cols :
              heap'[id].Cols[n] = heap[id].Cols[n]]_vars

\* the keys the range loops of a construction visited, in that order
Keys(e) == [i \in DOMAIN e.order |-> e.order[i].k]

\* C18: two constructions of one record type visit the clauses in the same
\* order and have the same outcome: the same error, or Models that are
\* structurally equal.
C18_Deterministic ==
    \A i, j \in DOMAIN trace :
        (Constructed(trace[i]) /\ Constructed(trace[j])
              /\ trace[i].rtype = trace[j].rtype)
        => /\ Keys(trace[i]) = Keys(trace[j])
           /\ trace[i].err = trace[j].err
           /\ (Succeeded(trace[i]) /\ Succeeded(trace[j]))
                 => DeepEqual(heap[trace[i].m], heap[trace[j].m])

\* the columns the constraints of a Model refer to, and those in Cols
Referenced(mod) ==
    {mod.PK[i] : i \in DOMAIN mod.PK}
    \cup {c \in {mod.AI, mod.OCC} : c # Nil}
    \cup UNION {{mod.KeyIndexes[n][i] : i \in DOMAIN mod.KeyIndexes[n]} :
                   n \in DOMAIN mod.KeyIndexes}
    \cup UNION {{mod.UniqueIndexes[n][i] : i \in DOMAIN mod.UniqueIndexes[n]} :
                   n \in DOMAIN mod.UniqueIndexes}
    \cup {mod.FK[n].Col : n \in DOMAIN mod.FK}
Inserted(mod) == {mod.Cols[n] : n \in DOMAIN mod.Cols}

\* C20: in every Model New returned, every column PK, AI, OCC, KeyIndexes,
\* UniqueIndexes or a ForeignKey refers to is a value of Cols.
C20_ReferentialClosure ==
    \A i \in DOMAIN trace :
        Succeeded(trace[i]) =>
            Referenced(heap[trace[i].m]) \subseteq Inserted(heap[trace[i].m])

\* the calls of CreateTableSQL that returned a statement
Rendered == {i \in DOMAIN out : out[i].op = "CreateTableSQL" /\ out[i].err = NoErr}

\* C13: CreateTableSQL returns one statement with the AI column first and
\* the other columns of Cols after it in the order of their fields, and two
\* calls for one Model return the same statement.
C13_ColumnOrder ==
    \A i \in Rendered :
        LET e == out[i]
            mod == heap[e.m]
            first == IF mod.AI # Nil THEN 1 ELSE 0
        IN /\ Len(e.stmts) = 1
           /\ mod.AI # Nil => e.order[1] = mod.AI
           /\ {e.order[k] : k \in (first + 1)..Len(e.order)} = Inserted(mod) \ {mod.AI}
           /\ \A k, l \in (first + 1)..Len(e.order) :
                  k < l => Before(e.order[k], e.order[l])
           /\ \A j \in Rendered : out[j].m = e.m => out[j].stmts = e.stmts

\* the number of places of s where pat stands
Occurrences(s, pat) ==
    Cardinality({k \in 1..(Len(s) - Len(pat) + 1) : SubSeq(s, k, k + Len(pat) - 1) = pat})

\* C14: the statement has the primary-key constraint clause exactly when PK
\* is not empty and its column is not the AI column, the inline
\* PRIMARY KEY AUTO_INCREMENT marker exactly when AI is set, and one of the
\* two exactly when the Model has a primary key.
C14_PKDeclaredOnce ==
    \A i \in Rendered :
        LET mod == heap[out[i].m]
            clause == Occurrences(out[i].stmts[1], SPrimaryKey)
            marker == Occurrences(out[i].stmts[1], SPrimaryKeyAI)
        IN /\ clause = IF mod.PK # <<>> /\ mod.PK[1] # mod.AI THEN 1 ELSE 0
           /\ marker = IF mod.AI # Nil THEN 1 ELSE 0
           /\ clause + marker = IF mod.PK # <<>> \/ mod.AI # Nil THEN 1 ELSE 0

\* CreateTableSQL rendered a Model whose one field declares pk and ai: the
\* marker is there and the constraint clause is not
C14_Witness ==
    \E i \in Rendered :
        LET mod == heap[out[i].m] IN
        /\ mod.AI # Nil
        /\ mod.PK = <<mod.AI>>
        /\ \E j \in DOMAIN trace :
              /\ trace[j].m = out[i].m
              /\ \E k \in DOMAIN trace[j].order : trace[j].order[k].k = "pk"
        /\ Occurrences(out[i].stmts[1], SPrimaryKeyAI) = 1
        /\ Occurrences(out[i].stmts[1], SPrimaryKey) = 0

\* the number of c among the first n characters of s
Count(s, c, n) == Cardinality({k \in 1..n : s[k] = c})
Depth(s, n) == Count(s, "(", n) - Count(s, ")", n)

\* C19: the statement begins with the header up to and including the
\* opening parenthesis, that parenthesis is closed, no comma stands before
\* the parenthesis that closes it, and the character line 79 removed was a
\* comma.
C19_Parentheses ==
    \A i \in Rendered :
        LET s == out[i].stmts[1]
            header == SCreateTable \o <<"{", "#">> \o heap[out[i].m].Name \o <<"}", "(">>
            open == Len(header)
        IN /\ Len(s) > open
           /\ SubSeq(s, 1, open) = header
           /\ \A n \in 1..Len(s) : Depth(s, n) >= 0
           /\ \E n \in (open + 1)..Len(s) :
                 /\ s[n] = ")"
                 /\ Depth(s, n) = 0
                 /\ \A k \in open..(n - 1) : Depth(s, k) > 0
                 /\ s[n - 1] # ","
           /\ out[i].cut = ","

\* the host types of text: string, []byte, []rune and their arrays, NullString
Textual(ty) ==
    \/ ty.Kind = "String"
    \/ ty.Kind \in {"Slice", "Array"} /\ ty.Elem.Kind \in {"Uint8", "Int32"}
    \/ ty = nullString

\* the calls of sqlType with a column that has a type
Typed == {i \in DOMAIN out : out[i].op = "sqlType" /\ out[i].col # Nil
                               /\ out[i].col.GoType # Nil}

\* C15: for a textual column sqlType writes VARCHAR(Len1) when
\* 0 < Len1 <= 65533 and LONGTEXT for every other Len1.
C15_Varchar ==
    \A i \in Typed :
        Textual(out[i].col.GoType) =>
            /\ out[i].err = NoErr
            /\ out[i].w = IF 0 < out[i].col.Len1 /\ out[i].col.Len1 <= MaxVarchar
                          THEN SVarchar \o <<"(">> \o Itoa(out[i].col.Len1) \o <<")">>
                          ELSE SLongtext

\* the host types the type mapping lists
Listed(ty) ==
    \/ ty.Kind \in IntKinds \cup {"Bool", "Uintptr", "Float32", "Float64"}
    \/ Textual(ty)
    \/ ty \in {nullBool, nullFloat64, nullInt64, timeType}

\* C16: sqlType returns an error for every type that is not listed, and
\* never returns nil having written nothing.
C16_Unsupported ==
    \A i \in Typed :
        /\ ~Listed(out[i].col.GoType) => out[i].err # NoErr
        /\ out[i].err = NoErr => out[i].w # <<>>

\* C17: mysqlInst is assigned at most once, and all the calls of Mysql()
\* return the same pointer.
C17_Singleton ==
    [][/\ mysqlInst # Nil =>
            \A t \in Threads : ~(dpc[t] = "assign" /\ dpc'[t] = "return")
       /\ \A i, j \in DOMAIN out' : out'[i].inst = out'[j].inst]_vars

====
